---- MODULE Spec2Model ----
(***************************************************************************)
(* Model of the model-translation server: the route handlers of            *)
(* routes/models.js and the APS wrapper functions they call                *)
(* (services/apsApisWrapper.js).                                           *)
(*                                                                         *)
(* Conventions                                                             *)
(*   - A JavaScript string that the code inspects character by character   *)
(*     (outputType, CAD file names, paths) is a sequence of one-character  *)
(*     strings; a string that is only compared is a TLA+ string.           *)
(*   - An optional property is a sequence of length at most one:           *)
(*     None (undefined / null) or Some(v).                                 *)
(*   - The remote service and the file system are the environment: every   *)
(*     await resumes with a reply chosen from the replies the remote can   *)
(*     give.                                                               *)
(***************************************************************************)
EXTENDS Integers, Sequences, FiniteSets, TLC

VARIABLES
    pc,         \* pc[p]: where request p stands in its handler
    req,        \* req[p]: the request p is serving (operation and inputs)
    loc,        \* loc[p]: the handler's local variables
    out,        \* out[p]: what the handler gave back: res.json / res.send / next(err)
    calls,      \* calls[p]: the outbound calls request p has issued, in order
    replies,    \* replies[p]: the replies request p has received, in order
    fsDirs,     \* the directories that exist on disk
    bucket,     \* whether APS_BUCKET exists at the remote service
    pmanifest,  \* parseManifest harness: the argument
    presult,    \* parseManifest harness: the value returned
    dirCalls,   \* createResultDirectory harness: the calls made, <<argument, result>>
    uids,       \* urnify harness: the two object ids given
    uurns       \* urnify harness: the two urns returned, <<>> before the calls

vars == <<pc, req, loc, out, calls, replies, fsDirs, bucket, pmanifest, presult, dirCalls,
         uids, uurns>>

\* ------------------------------------------------------------------ bounds

MaxDerivatives == 2
MaxChildren == 2
MaxNameLen == 4
MaxDirCalls == 2
MaxItems == 1
MaxPages == 3
MaxIdLen == 3

\* getObjects is asked for pages of 64 objects.
PageLimit == 64

\* ------------------------------------------------------------ JS values

None == <<>>
Some(v) == <<v>>
IsSome(o) == Len(o) = 1
Get(o) == o[1]

\* Sequences over S of length at most n.
SeqUpTo(S, n) == UNION {[1..k -> S] : k \in 0..n}

\* String.prototype.includes: m occurs in s as a contiguous substring.
Includes(s, m) ==
    \E i \in 1..(Len(s) - Len(m) + 1) : SubSeq(s, i, i + Len(m) - 1) = m

svf == <<"s", "v", "f">>
svf2 == <<"s", "v", "f", "2">>
obj == <<"o", "b", "j">>
thumbnail == <<"t", "h", "u", "m", "b">>

PropertyDatabaseRole == "Autodesk.CloudPlatform.PropertyDatabase"
ModelDataRole == "Autodesk.AEC.ModelData"
OtherRole == "graphics"

houseRvt == <<"h", ".", "r">>
otherRvt == <<"o", ".", "r">>

\* ------------------------------------------------------------- urnify

\* The base64 alphabet, by sextet value + 1.
Base64Alphabet ==
    <<"A", "B", "C", "D", "E", "F", "G", "H", "I", "J", "K", "L", "M",
      "N", "O", "P", "Q", "R", "S", "T", "U", "V", "W", "X", "Y", "Z",
      "a", "b", "c", "d", "e", "f", "g", "h", "i", "j", "k", "l", "m",
      "n", "o", "p", "q", "r", "s", "t", "u", "v", "w", "x", "y", "z",
      "0", "1", "2", "3", "4", "5", "6", "7", "8", "9", "+", "/">>

Base64Char(sextet) == Base64Alphabet[sextet + 1]

\* Buffer.toString("base64") of a sequence of bytes: three bytes give four
\* characters, and a last group of one or two bytes is padded with '='.
RECURSIVE base64(_)
base64(bytes) ==
    IF bytes = <<>> THEN <<>>
    ELSE IF Len(bytes) = 1
    THEN <<Base64Char(bytes[1] \div 4), Base64Char((bytes[1] % 4) * 16), "=", "=">>
    ELSE IF Len(bytes) = 2
    THEN <<Base64Char(bytes[1] \div 4),
           Base64Char((bytes[1] % 4) * 16 + bytes[2] \div 16),
           Base64Char((bytes[2] % 16) * 4), "=">>
    ELSE <<Base64Char(bytes[1] \div 4),
           Base64Char((bytes[1] % 4) * 16 + bytes[2] \div 16),
           Base64Char((bytes[2] % 16) * 4 + bytes[3] \div 64),
           Base64Char(bytes[3] % 64)>>
         \o base64(SubSeq(bytes, 4, Len(bytes)))

\* String.prototype.replace(/=/g, ""): every '=' is removed.
RECURSIVE replaceAllPadding(_)
replaceAllPadding(string) ==
    IF string = <<>> THEN <<>>
    ELSE IF Head(string) = "=" THEN replaceAllPadding(Tail(string))
    ELSE <<Head(string)>> \o replaceAllPadding(Tail(string))

\* service.urnify(id), id given by the bytes Buffer.from(id) makes of it
\* (its UTF-8 encoding).
urnify_Padded(id) == base64(id)

urnify(id) == replaceAllPadding(base64(id))

\* ------------------------------------------------------- parseManifest

Error(message) == [kind |-> "Error", message |-> message]
IsError(v) == v.kind = "Error"

Summary(cadFileName, sqLiteUrn, propertiesUrn) ==
    [kind |-> "summary", cadFileName |-> cadFileName,
     sqLiteUrn |-> sqLiteUrn, propertiesUrn |-> propertiesUrn]

\* derivativeIsOk: the value is used as a condition, so it is its truthiness.
\* outputType?.includes('svf') is undefined when outputType is; children is
\* truthy whenever it is present, an empty array included.
derivativeIsOk(derivative) ==
    /\ IsSome(derivative.outputType)
    /\ Includes(Get(derivative.outputType), svf)
    /\ derivative.progress = "complete"
    /\ derivative.status = "success"
    /\ IsSome(derivative.children)

\* The inner loop over derivative.children, from child i on; acc is the summary so far.
RECURSIVE parseChildren(_, _, _)
parseChildren(children, i, acc) ==
    IF i > Len(children) THEN acc
    ELSE LET child == children[i]
             a1 == IF child.role = PropertyDatabaseRole
                   THEN [acc EXCEPT !.sqLiteUrn = child.urn] ELSE acc
             a2 == IF child.role = ModelDataRole
                   THEN [a1 EXCEPT !.propertiesUrn = child.urn] ELSE a1
         IN parseChildren(children, i + 1, a2)

\* The outer loop over manifest.derivatives, from derivative i on.
RECURSIVE parseDerivatives(_, _, _)
parseDerivatives(derivatives, i, acc) ==
    IF i > Len(derivatives) THEN acc
    ELSE LET derivative == derivatives[i]
         IN IF ~derivativeIsOk(derivative)
            THEN parseDerivatives(derivatives, i + 1, acc)
            ELSE parseDerivatives(derivatives, i + 1,
                     parseChildren(Get(derivative.children), 1,
                                   [acc EXCEPT !.cadFileName = derivative.name]))

\* parseManifest(manifest): manifest is None (null) or Some(object).
parseManifest(manifest) ==
    IF ~IsSome(manifest) THEN Error("no manifest received")
    ELSE IF ~IsSome(Get(manifest).derivatives) THEN Error("manifest has no derivatives")
    ELSE parseDerivatives(Get(Get(manifest).derivatives), 1, Summary(<<>>, "", ""))

NotParsed == [kind |-> "none"]

\* ------------------------------------------------ createResultDirectory

\* A path is a sequence of components, a component a sequence of characters.
app == <<"app">>
routes == <<"routes">>
results == <<"results">>
dot == <<".">>
dotdot == <<".", ".">>

\* __dirname of routes/models.js, and what exists before any request.
dirname == <<app, routes>>
baseDirs == {<<app>>, dirname}

\* path.basename (posix): trailing slashes are dropped, then what follows the
\* last slash is kept; '' when nothing but slashes is left.
RECURSIVE stripTrailingSlashes(_)
stripTrailingSlashes(name) ==
    IF name # <<>> /\ name[Len(name)] = "/"
    THEN stripTrailingSlashes(SubSeq(name, 1, Len(name) - 1))
    ELSE name

basename(name) ==
    LET stripped == stripTrailingSlashes(name)
        slashes == {i \in 1..Len(stripped) : stripped[i] = "/"}
        start == IF slashes = {} THEN 1
                 ELSE 1 + CHOOSE m \in slashes : \A o \in slashes : o <= m
    IN SubSeq(stripped, start, Len(stripped))

\* path.join(dir, segment) for a segment without slashes: the joined path is
\* normalised, so '' and '.' leave dir and '..' goes to its parent.
pathJoin(dir, segment) ==
    IF segment = <<>> \/ segment = dot THEN dir
    ELSE IF segment = dotdot THEN SubSeq(dir, 1, Len(dir) - 1)
    ELSE Append(dir, segment)

baseResultDir == pathJoin(pathJoin(dirname, dotdot), results)

\* createDirectory(dirPath) on the disk fs: fs.mkdirSync throws when the
\* parent is missing or the disk refuses (mkdirOk is the disk's answer).
createDirectory(fs, dirPath, mkdirOk) ==
    IF dirPath \in fs THEN [kind |-> "return", value |-> TRUE, fs |-> fs]
    ELSE IF mkdirOk /\ SubSeq(dirPath, 1, Len(dirPath) - 1) \in fs
         THEN [kind |-> "return", value |-> TRUE, fs |-> fs \cup {dirPath}]
    ELSE [kind |-> "throw", err |-> [kind |-> "mkdir"], fs |-> fs]

Path(path) == [kind |-> "path", path |-> path]

\* createResultDirectory(cadFileName): the Error or the path returned, or the
\* exception of mkdirSync, and the disk afterwards.
createResultDirectory(fs, cadFileName, mkdirOk) ==
    IF cadFileName = <<>>
    THEN [kind |-> "return", value |-> Error("No CAD file name provided."), fs |-> fs]
    ELSE LET base == createDirectory(fs, baseResultDir, mkdirOk)
         IN IF base.kind = "throw" THEN base
            ELSE IF ~base.value
            THEN [kind |-> "return", fs |-> base.fs,
                  value |-> Error("Could not create base results directory.")]
            ELSE LET resultDir == pathJoin(baseResultDir, basename(cadFileName))
                     made == createDirectory(base.fs, resultDir, mkdirOk)
                 IN IF made.kind = "throw" THEN made
                    ELSE IF ~made.value
                    THEN [kind |-> "return", fs |-> made.fs,
                          value |-> Error("Could not create results directory.")]
                    ELSE [kind |-> "return", fs |-> made.fs, value |-> Path(resultDir)]

\* ------------------------------------------------------------ processes

\* One request in flight; a specification of concurrent requests starts
\* from a larger set.
OneRequest == {"r1"}

NoReq == [op |-> "none"]
NoLoc == [none |-> TRUE]
NoOut == [kind |-> "none"]

IdleState(P) ==
    /\ pc = [p \in P |-> "idle"]
    /\ req = [p \in P |-> NoReq]
    /\ loc = [p \in P |-> NoLoc]
    /\ out = [p \in P |-> NoOut]
    /\ calls = [p \in P |-> <<>>]
    /\ replies = [p \in P |-> <<>>]

handlerVars == <<pc, req, loc, out, calls, replies>>
harnessVars == <<pmanifest, presult, dirCalls, uids, uurns>>

\* ------------------------------------------------- handler plumbing

JobIds == {"dXJuOmE", "dXJuOmI"}

Json(body) == [kind |-> "json", body |-> body]
NextErr(e) == [kind |-> "next", err |-> e]
Return(v) == [kind |-> "return", value |-> v]
Throw(e) == [kind |-> "throw", err |-> e]

HttpError(status) == [kind |-> "http", status |-> status]
\* A failure with no response object (the connection failed): the catch
\* blocks read err.response.status of it, which throws a TypeError.
TransportError == [kind |-> "transport"]
TypeError == [kind |-> "TypeError"]
Ok(body) == [kind |-> "ok", body |-> body]

Failures == {HttpError(401), HttpError(500), TransportError}

\* A request starts in a handler that is not running.
Begin(p, op, position, call) ==
    /\ pc[p] \in {"idle", "done"}
    /\ pc' = [pc EXCEPT ![p] = position]
    /\ req' = [req EXCEPT ![p] = op]
    /\ loc' = [loc EXCEPT ![p] = NoLoc]
    /\ out' = [out EXCEPT ![p] = NoOut]
    /\ calls' = [calls EXCEPT ![p] = <<call>>]
    /\ replies' = [replies EXCEPT ![p] = <<>>]

\* The handler is over: it responded, passed an error on, or just returned.
Finish(p, reply, outcome) ==
    /\ pc' = [pc EXCEPT ![p] = "done"]
    /\ out' = [out EXCEPT ![p] = outcome]
    /\ replies' = [replies EXCEPT ![p] = Append(@, reply)]

\* ---------------------------------------------------------- getManifest

\* service.getManifest, resumed with the remote's reply: the body, null on a
\* 404, and any other failure thrown (a failure without a response throws
\* the TypeError of reading err.response.status).
getManifest_NotFoundThrows(reply) ==
    IF reply.kind = "ok" THEN Return(reply.body)
    ELSE IF reply.kind = "http" THEN Throw(reply)
    ELSE Throw(TypeError)

getManifest(reply) ==
    IF reply.kind = "ok" THEN Return(reply.body)
    ELSE IF reply.kind = "http"
         THEN IF reply.status = 404 THEN Return(None) ELSE Throw(reply)
    ELSE Throw(TypeError)

ManifestReplies(manifests) ==
    {Ok(Some(m)) : m \in manifests} \cup {HttpError(404)} \cup Failures

\* ------------------------------------------------ GET /:urn/status

\* derivative.messages || [], child.messages || []
OrEmpty(messages) == IF IsSome(messages) THEN Get(messages) ELSE <<>>

\* The loop over derivative.children: the value of messages.concat(...) is
\* dropped, so messages leaves the loop as it entered it.
RECURSIVE statusChildren(_, _, _)
statusChildren(children, j, messages) ==
    IF j > Len(children) THEN messages
    ELSE LET dropped == messages \o OrEmpty(children[j].messages)
         IN statusChildren(children, j + 1, messages)

\* The loop over manifest.derivatives.
RECURSIVE statusDerivatives(_, _, _)
statusDerivatives(derivatives, i, messages) ==
    IF i > Len(derivatives) THEN messages
    ELSE LET derivative == derivatives[i]
             m1 == messages \o OrEmpty(derivative.messages)
             m2 == IF IsSome(derivative.children)
                   THEN statusChildren(Get(derivative.children), 1, m1)
                   ELSE m1
         IN statusDerivatives(derivatives, i + 1, m2)

\* The handler's body after the await of getManifest.
statusResponse(manifest) ==
    IF IsSome(manifest)
    THEN LET m == Get(manifest)
             messages == IF IsSome(m.derivatives)
                         THEN statusDerivatives(Get(m.derivatives), 1, <<>>)
                         ELSE <<>>
         IN Json([status |-> m.status, progress |-> m.progress, messages |-> messages])
    ELSE Json([status |-> "n/a"])

StatusChild == [role : {PropertyDatabaseRole}, type : {"resource"}, urn : {"U1"},
                messages : {None, Some(<<"c1">>)}]

StatusDerivative ==
    [outputType : {Some(svf)}, progress : {"complete"}, status : {"success"},
     name : {houseRvt},
     children : {None} \cup {Some(c) : c \in SeqUpTo(StatusChild, MaxChildren)},
     messages : {None, Some(<<"m1">>), Some(<<"m2", "m3">>)}]

StatusManifests ==
    {[status |-> "inprogress", progress |-> "50% complete", derivatives |-> d] :
        d \in {None} \cup {Some(s) : s \in SeqUpTo(StatusDerivative, MaxDerivatives)}}

StatusRequest(p) ==
    \E urn \in JobIds :
        /\ Begin(p, [op |-> "status", urn |-> urn], "status_getManifest",
                 [api |-> "getManifest", urn |-> urn])
        /\ UNCHANGED <<fsDirs, bucket, harnessVars>>

StatusManifestReply(p) ==
    /\ pc[p] = "status_getManifest"
    /\ \E reply \in ManifestReplies(StatusManifests) :
           /\ LET got == getManifest(reply)
              IN Finish(p, reply, IF got.kind = "throw" THEN NextErr(got.err)
                                  ELSE statusResponse(got.value))
           /\ UNCHANGED <<req, loc, calls, fsDirs, bucket, harnessVars>>

\* ------------------------------------------ getDerivativeDownloadUrn

\* service.getDerivativeDownloadUrn, resumed with the remote's reply: a
\* failure is thrown as it is, and a reply without a set-cookie header
\* throws the TypeError of resp.headers['set-cookie'].join.
getDerivativeDownloadUrn(reply) ==
    IF reply.kind # "ok" THEN Throw(reply)
    ELSE IF ~IsSome(reply.cookies) THEN Throw(TypeError)
    ELSE Return([data |-> reply.body, cookieValue |-> Get(reply.cookies)])

DownloadReplies ==
    {[kind |-> "ok", body |-> "signed-url", cookies |-> c] : c \in {None, Some("cookie")}}
    \cup {HttpError(404)} \cup Failures

\* ---------------------------------------------- GET /:urn/properties

PropertyDatabaseChild ==
    [role |-> PropertyDatabaseRole, type |-> "resource", urn |-> "U1", messages |-> None]
ModelDataChild ==
    [role |-> ModelDataRole, type |-> "resource", urn |-> "U2", messages |-> None]

PropsDerivative ==
    [outputType : {Some(svf)}, progress : {"complete", "inprogress"},
     status : {"success"}, name : {houseRvt, dotdot},
     children : {None, Some(<<>>), Some(<<PropertyDatabaseChild>>),
                 Some(<<PropertyDatabaseChild, ModelDataChild>>)},
     messages : {None}]

PropsManifests ==
    {[status |-> "success", progress |-> "complete", derivatives |-> d] :
        d \in {None} \cup {Some(s) : s \in SeqUpTo(PropsDerivative, MaxDerivatives)}}

DownloadCall(urn, derivativeUrn) ==
    [api |-> "getDerivativeDownloadUrl", urn |-> urn, derivativeUrn |-> derivativeUrn]

PropsRequest(p) ==
    \E urn \in JobIds :
        /\ Begin(p, [op |-> "props", urn |-> urn], "props_getManifest",
                 [api |-> "getManifest", urn |-> urn])
        /\ UNCHANGED <<fsDirs, bucket, harnessVars>>

\* From the await of getManifest to the await of the first
\* getDerivativeDownloadUrn, or to the handler's end by next(...).
PropsManifestReply(p) ==
    /\ pc[p] = "props_getManifest"
    /\ \E reply \in ManifestReplies(PropsManifests), mkdirOk \in BOOLEAN :
           /\ LET got == getManifest(reply)
                  parsedManifest == parseManifest(got.value)
                  resultDir == createResultDirectory(fsDirs, parsedManifest.cadFileName, mkdirOk)
              IN IF got.kind = "throw"
                 THEN /\ Finish(p, reply, NextErr(got.err))
                      /\ UNCHANGED <<loc, calls, fsDirs>>
                 ELSE IF IsError(parsedManifest)
                 THEN /\ Finish(p, reply, NextErr(parsedManifest))
                      /\ UNCHANGED <<loc, calls, fsDirs>>
                 ELSE IF resultDir.kind = "throw"
                 THEN /\ Finish(p, reply, NextErr(resultDir.err))
                      /\ fsDirs' = resultDir.fs
                      /\ UNCHANGED <<loc, calls>>
                 ELSE IF IsError(resultDir.value)
                 THEN /\ Finish(p, reply, NextErr(resultDir.value))
                      /\ fsDirs' = resultDir.fs
                      /\ UNCHANGED <<loc, calls>>
                 ELSE /\ pc' = [pc EXCEPT ![p] = "props_sqLiteUrn"]
                      /\ replies' = [replies EXCEPT ![p] = Append(@, reply)]
                      /\ loc' = [loc EXCEPT ![p] = [parsedManifest |-> parsedManifest,
                                                    resultDir |-> resultDir.value.path]]
                      /\ calls' = [calls EXCEPT ![p] =
                                      Append(@, DownloadCall(req[p].urn, parsedManifest.sqLiteUrn))]
                      /\ fsDirs' = resultDir.fs
                      /\ UNCHANGED out
           /\ UNCHANGED <<req, bucket, harnessVars>>

\* From the first await of getDerivativeDownloadUrn to the second.
PropsSqLiteReply(p) ==
    /\ pc[p] = "props_sqLiteUrn"
    /\ \E reply \in DownloadReplies :
           /\ LET sqLiteUrnData == getDerivativeDownloadUrn(reply)
              IN IF sqLiteUrnData.kind = "throw"
                 THEN /\ Finish(p, reply, NextErr(sqLiteUrnData.err))
                      /\ UNCHANGED calls
                 ELSE /\ pc' = [pc EXCEPT ![p] = "props_propertiesUrn"]
                      /\ replies' = [replies EXCEPT ![p] = Append(@, reply)]
                      /\ calls' = [calls EXCEPT ![p] =
                            Append(@, DownloadCall(req[p].urn, loc[p].parsedManifest.propertiesUrn))]
                      /\ UNCHANGED out
           /\ UNCHANGED <<req, loc, fsDirs, bucket, harnessVars>>

\* From the second await to the end of the try block: nothing is sent.
PropsPropertiesReply(p) ==
    /\ pc[p] = "props_propertiesUrn"
    /\ \E reply \in DownloadReplies :
           /\ LET propertiesUrnData == getDerivativeDownloadUrn(reply)
              IN Finish(p, reply, IF propertiesUrnData.kind = "throw"
                                  THEN NextErr(propertiesUrnData.err)
                                  ELSE NoOut)
           /\ UNCHANGED <<req, loc, calls, fsDirs, bucket, harnessVars>>

\* ----------------------------------------------------- translateObject

\* The truthiness of a string that may be undefined: rootFilename in
\* `if (rootFilename)`.
Truthy(string) == IsSome(string) /\ Get(string) # ""

\* The job object service.translateObject builds.
translationJob_FlagWhenDefined(urn, rootFilename) ==
    [input |-> IF IsSome(rootFilename)
               THEN [urn |-> urn, compressedUrn |-> TRUE, rootFilename |-> Get(rootFilename)]
               ELSE [urn |-> urn],
     output |-> [formats |-> <<[type |-> svf2, views |-> <<"2d", "3d">>]>>]]

translationJob(urn, rootFilename) ==
    [input |-> IF Truthy(rootFilename)
               THEN [urn |-> urn, compressedUrn |-> TRUE, rootFilename |-> Get(rootFilename)]
               ELSE [urn |-> urn],
     output |-> [formats |-> <<[type |-> svf2, views |-> <<"2d", "3d">>]>>]]

\* req.fields['model-zip-entrypoint']: missing, empty, or a file name.
RootFilenames == {None, Some(""), Some("main.iam"), Some("sub/part.ipt")}

TranslateReplies == {Ok("created"), Ok("success"), HttpError(400)} \cup Failures

\* service.translateObject up to the await of translate(job, ...).
TranslateCall(p) ==
    \E urn \in JobIds, rootFilename \in RootFilenames :
        /\ Begin(p, [op |-> "translateObject", urn |-> urn, rootFilename |-> rootFilename],
                 "translate_translate",
                 [api |-> "translate", job |-> translationJob(urn, rootFilename)])
        /\ UNCHANGED <<fsDirs, bucket, harnessVars>>

\* service.translateObject after the await: resp.body returned, a failure thrown.
TranslateReply(p) ==
    /\ pc[p] = "translate_translate"
    /\ \E reply \in TranslateReplies :
           /\ Finish(p, reply, IF reply.kind = "ok" THEN Return(reply.body) ELSE Throw(reply))
           /\ UNCHANGED <<req, loc, calls, fsDirs, bucket, harnessVars>>

\* --------------------------------------- ensureBucketExists, listObjects

ObjectIds == {"o1", "o2"}
BucketDetails == [bucketKey |-> "APS_BUCKET", policyKey |-> "temporary"]
StartAts == {"k1"}

\* A page of getObjects: resp.body.items and resp.body.next, the URL of the
\* next page, of which only its startAt query parameter is read.
Pages ==
    [items : SeqUpTo(ObjectIds, MaxItems),
     next : {None} \cup {Some([startAt |-> k]) : k \in StartAts}]

\* new URL(resp.body.next).searchParams.get("startAt")
startAtOf(next) == Get(next).startAt

GetObjectsCall(startAt) == [api |-> "getObjects", limit |-> PageLimit, startAt |-> startAt]

\* objects after a page: resp.body.items for the first page, then
\* objects.concat(resp.body.items).
listAccumulate_Overwrite(first, objects, items) == items

listAccumulate(first, objects, items) ==
    IF first THEN items ELSE objects \o items

\* How many getObjects calls request p has issued.
PagesAsked(p) == Cardinality({i \in 1..Len(calls[p]) : calls[p][i].api = "getObjects"})

\* service.listObjects up to the await in ensureBucketExists.
ListCall(p) ==
    /\ Begin(p, [op |-> "listObjects"], "list_getBucketDetails",
             [api |-> "getBucketDetails"])
    /\ UNCHANGED <<fsDirs, bucket, harnessVars>>

\* The first getObjects call, once ensureBucketExists has returned.
ListFirstPage(p, reply) ==
    /\ pc' = [pc EXCEPT ![p] = "list_getObjects"]
    /\ replies' = [replies EXCEPT ![p] = Append(@, reply)]
    /\ calls' = [calls EXCEPT ![p] = Append(@, GetObjectsCall(None))]
    /\ UNCHANGED <<loc, out>>

\* ensureBucketExists after getBucketDetails: a 404 leads to createBucket,
\* any other failure is thrown.
ListBucketReply(p) ==
    /\ pc[p] = "list_getBucketDetails"
    /\ \E reply \in (IF bucket THEN {Ok(BucketDetails)} ELSE {HttpError(404)}) \cup Failures :
           /\ IF reply.kind = "ok" THEN ListFirstPage(p, reply)
              ELSE IF reply.kind = "http" /\ reply.status = 404
              THEN /\ pc' = [pc EXCEPT ![p] = "list_createBucket"]
                   /\ replies' = [replies EXCEPT ![p] = Append(@, reply)]
                   /\ calls' = [calls EXCEPT ![p] = Append(@, [api |-> "createBucket"])]
                   /\ UNCHANGED <<loc, out>>
              ELSE /\ Finish(p, reply, Throw(IF reply.kind = "http" THEN reply ELSE TypeError))
                   /\ UNCHANGED <<loc, calls>>
           /\ UNCHANGED <<req, fsDirs, bucket, harnessVars>>

\* ensureBucketExists after createBucket: the remote refuses a bucket that
\* exists (409).
ListCreateReply(p) ==
    /\ pc[p] = "list_createBucket"
    /\ \E reply \in (IF bucket THEN {HttpError(409)} ELSE {Ok(BucketDetails)}) \cup Failures :
           /\ IF reply.kind = "ok"
              THEN ListFirstPage(p, reply) /\ bucket' = TRUE
              ELSE /\ Finish(p, reply, Throw(reply))
                   /\ UNCHANGED <<loc, calls, bucket>>
           /\ UNCHANGED <<req, fsDirs, harnessVars>>

\* listObjects after a getObjects: the page is added, and the loop asks for
\* the next page or the function returns. The remote ends the listing by
\* the page numbered MaxPages.
ListObjectsReply(p) ==
    /\ pc[p] = "list_getObjects"
    /\ \E reply \in {Ok(page) : page \in Pages} \cup Failures :
           /\ reply.kind = "ok" /\ PagesAsked(p) >= MaxPages => ~IsSome(reply.body.next)
           /\ IF reply.kind # "ok"
              THEN /\ Finish(p, reply, Throw(reply))
                   /\ UNCHANGED <<loc, calls>>
              ELSE LET first == PagesAsked(p) = 1
                       objects == listAccumulate(first, IF first THEN <<>> ELSE loc[p].objects,
                                                 reply.body.items)
                   IN IF IsSome(reply.body.next)
                      THEN /\ loc' = [loc EXCEPT ![p] = [objects |-> objects]]
                           /\ calls' = [calls EXCEPT ![p] =
                                  Append(@, GetObjectsCall(Some(startAtOf(reply.body.next))))]
                           /\ replies' = [replies EXCEPT ![p] = Append(@, reply)]
                           /\ UNCHANGED <<pc, out>>
                      ELSE /\ Finish(p, reply, Return(objects))
                           /\ loc' = [loc EXCEPT ![p] = [objects |-> objects]]
                           /\ UNCHANGED calls
           /\ UNCHANGED <<req, fsDirs, bucket, harnessVars>>

\* ------------------------------------------ uploadObject, POST a model

\* req.files['model-file'].name
FileNames == {"house.rvt", "parts.zip"}

\* obj.objectId of an uploaded object, as bytes.
UploadedObjectIds == {<<97>>, <<97, 61>>}

\* fs.promises.readFile on a path that cannot be read.
FsError == [kind |-> "fs", code |-> "ENOENT"]

Send(status, body) == [kind |-> "send", status |-> status, body |-> body]

MissingFileResponse == Send(400, "The required field (\"model-file\") is missing.")

\* What uploadResources answers for the one object sent: its details, or the
\* failure of its upload with the error flag set.
UploadResults(objectKey) ==
    {<<[error |-> FALSE, completed |-> [objectKey |-> objectKey, objectId |-> id]]>> :
        id \in UploadedObjectIds}
    \cup {<<[error |-> TRUE, completed |-> e]>> : e \in Failures}

\* The end of service.uploadObject, on the results of uploadResources.
uploadOutcome(uploadResults) ==
    IF uploadResults[1].error
    THEN Throw(uploadResults[1].completed)
    ELSE Return(uploadResults[1].completed)

\* The response of the handler once the translation is submitted.
createResponse_PaddedUrn(uploaded) ==
    Json([name |-> uploaded.objectKey, urn |-> base64(uploaded.objectId)])

createResponse(uploaded) ==
    Json([name |-> uploaded.objectKey, urn |-> urnify(uploaded.objectId)])

\* POST /api/models without the field 'model-file': 400, and nothing else.
CreateMissingFile(p) ==
    /\ pc[p] \in {"idle", "done"}
    /\ \E rootFilename \in RootFilenames :
           req' = [req EXCEPT ![p] =
                      [op |-> "createModel", file |-> None, rootFilename |-> rootFilename]]
    /\ pc' = [pc EXCEPT ![p] = "done"]
    /\ loc' = [loc EXCEPT ![p] = NoLoc]
    /\ out' = [out EXCEPT ![p] = MissingFileResponse]
    /\ calls' = [calls EXCEPT ![p] = <<>>]
    /\ replies' = [replies EXCEPT ![p] = <<>>]
    /\ UNCHANGED <<fsDirs, bucket, harnessVars>>

\* POST /api/models with a file, up to the await in ensureBucketExists.
CreateCall(p) ==
    \E name \in FileNames, rootFilename \in RootFilenames :
        /\ Begin(p, [op |-> "createModel", file |-> Some([name |-> name]),
                     rootFilename |-> rootFilename],
                 "create_getBucketDetails", [api |-> "getBucketDetails"])
        /\ UNCHANGED <<fsDirs, bucket, harnessVars>>

\* uploadObject once ensureBucketExists has returned: the file is read.
CreateReadFile(p, reply) ==
    /\ pc' = [pc EXCEPT ![p] = "create_readFile"]
    /\ replies' = [replies EXCEPT ![p] = Append(@, reply)]
    /\ calls' = [calls EXCEPT ![p] = Append(@, [api |-> "readFile"])]
    /\ UNCHANGED <<loc, out>>

\* ensureBucketExists in uploadObject, after getBucketDetails; what it
\* throws is caught by the handler and passed to next.
CreateBucketReply(p) ==
    /\ pc[p] = "create_getBucketDetails"
    /\ \E reply \in (IF bucket THEN {Ok(BucketDetails)} ELSE {HttpError(404)}) \cup Failures :
           /\ IF reply.kind = "ok" THEN CreateReadFile(p, reply)
              ELSE IF reply.kind = "http" /\ reply.status = 404
              THEN /\ pc' = [pc EXCEPT ![p] = "create_createBucket"]
                   /\ replies' = [replies EXCEPT ![p] = Append(@, reply)]
                   /\ calls' = [calls EXCEPT ![p] = Append(@, [api |-> "createBucket"])]
                   /\ UNCHANGED <<loc, out>>
              ELSE /\ Finish(p, reply, NextErr(IF reply.kind = "http" THEN reply ELSE TypeError))
                   /\ UNCHANGED <<loc, calls>>
           /\ UNCHANGED <<req, fsDirs, bucket, harnessVars>>

\* ensureBucketExists in uploadObject, after createBucket.
CreateCreateReply(p) ==
    /\ pc[p] = "create_createBucket"
    /\ \E reply \in (IF bucket THEN {HttpError(409)} ELSE {Ok(BucketDetails)}) \cup Failures :
           /\ IF reply.kind = "ok"
              THEN CreateReadFile(p, reply) /\ bucket' = TRUE
              ELSE /\ Finish(p, reply, NextErr(reply))
                   /\ UNCHANGED <<loc, calls, bucket>>
           /\ UNCHANGED <<req, fsDirs, harnessVars>>

\* uploadObject after readFile: the buffer is sent under the file's name.
CreateReadReply(p) ==
    /\ pc[p] = "create_readFile"
    /\ \E reply \in {Ok("buffer"), FsError} :
           /\ IF reply.kind = "ok"
              THEN /\ pc' = [pc EXCEPT ![p] = "create_uploadResources"]
                   /\ replies' = [replies EXCEPT ![p] = Append(@, reply)]
                   /\ calls' = [calls EXCEPT ![p] =
                          Append(@, [api |-> "uploadResources",
                                     objectKey |-> Get(req[p].file).name])]
                   /\ UNCHANGED <<loc, out>>
              ELSE /\ Finish(p, reply, NextErr(reply))
                   /\ UNCHANGED <<loc, calls>>
           /\ UNCHANGED <<req, fsDirs, bucket, harnessVars>>

\* uploadObject after uploadResources, and the handler up to the await in
\* translateObject.
CreateUploadReply(p) ==
    /\ pc[p] = "create_uploadResources"
    /\ \E reply \in {Ok(r) : r \in UploadResults(Get(req[p].file).name)} \cup Failures :
           /\ IF reply.kind # "ok"
              THEN /\ Finish(p, reply, NextErr(reply))
                   /\ UNCHANGED <<loc, calls>>
              ELSE LET uploaded == uploadOutcome(reply.body)
                   IN IF uploaded.kind = "throw"
                      THEN /\ Finish(p, reply, NextErr(uploaded.err))
                           /\ UNCHANGED <<loc, calls>>
                      ELSE /\ pc' = [pc EXCEPT ![p] = "create_translate"]
                           /\ loc' = [loc EXCEPT ![p] = [obj |-> uploaded.value]]
                           /\ replies' = [replies EXCEPT ![p] = Append(@, reply)]
                           /\ calls' = [calls EXCEPT ![p] =
                                  Append(@, [api |-> "translate",
                                             job |-> translationJob(
                                                 urnify(uploaded.value.objectId),
                                                 req[p].rootFilename)])]
                           /\ UNCHANGED out
           /\ UNCHANGED <<req, fsDirs, bucket, harnessVars>>

\* The handler after translateObject: the response, or next(err).
CreateTranslateReply(p) ==
    /\ pc[p] = "create_translate"
    /\ \E reply \in TranslateReplies :
           /\ Finish(p, reply, IF reply.kind = "ok" THEN createResponse(loc[p].obj)
                               ELSE NextErr(reply))
           /\ UNCHANGED <<req, loc, calls, fsDirs, bucket, harnessVars>>

\* ------------------------------------------------------- specifications

InitServer ==
    /\ IdleState(OneRequest)
    /\ fsDirs = baseDirs
    /\ bucket \in BOOLEAN
    /\ pmanifest = None
    /\ presult = NotParsed
    /\ dirCalls = <<>>
    /\ uids = <<>>
    /\ uurns = <<>>

NextStatus ==
    \/ \E p \in DOMAIN pc : StatusRequest(p)
    \/ \E p \in DOMAIN pc : StatusManifestReply(p)

SpecStatus == InitServer /\ [][NextStatus]_vars

NextProps ==
    \/ \E p \in DOMAIN pc : PropsRequest(p)
    \/ \E p \in DOMAIN pc : PropsManifestReply(p)
    \/ \E p \in DOMAIN pc : PropsSqLiteReply(p)
    \/ \E p \in DOMAIN pc : PropsPropertiesReply(p)

SpecProps == InitServer /\ [][NextProps]_vars

NextTranslate ==
    \/ \E p \in DOMAIN pc : TranslateCall(p)
    \/ \E p \in DOMAIN pc : TranslateReply(p)

SpecTranslate == InitServer /\ [][NextTranslate]_vars

NextList ==
    \/ \E p \in DOMAIN pc : ListCall(p)
    \/ \E p \in DOMAIN pc : ListBucketReply(p)
    \/ \E p \in DOMAIN pc : ListCreateReply(p)
    \/ \E p \in DOMAIN pc : ListObjectsReply(p)

\* Every awaited call is answered, and the event loop then resumes the
\* function that awaits it.
ListFairness ==
    \A p \in OneRequest :
        /\ WF_vars(ListBucketReply(p))
        /\ WF_vars(ListCreateReply(p))
        /\ WF_vars(ListObjectsReply(p))

SpecList == InitServer /\ [][NextList]_vars /\ ListFairness

\* ------------------------------------------- inputs of the parse harness

ParseChild == [role : {PropertyDatabaseRole, ModelDataRole, OtherRole},
               type : {"resource", "geometry"},
               urn : {"U1", "U2"},
               messages : {None}]

ParseChildrenLists == {None} \cup {Some(c) : c \in SeqUpTo(ParseChild, MaxChildren)}

\* Every combination of the filter's fields over one fixed child list, and
\* every child list under fields that pass the filter.
ParseDerivative ==
    [outputType : {None, Some(svf), Some(svf2), Some(obj)},
     progress : {"complete", "inprogress"},
     status : {"success", "failed"},
     name : {houseRvt},
     children : {Some(<<[role |-> PropertyDatabaseRole, type |-> "resource",
                         urn |-> "U1", messages |-> None]>>)},
     messages : {None}]
    \cup
    [outputType : {Some(svf)},
     progress : {"complete"},
     status : {"success"},
     name : {houseRvt, otherRvt},
     children : ParseChildrenLists,
     messages : {None}]

ParseManifests ==
    {None} \cup
    {Some([status |-> "success", progress |-> "complete", derivatives |-> d]) :
        d \in {None} \cup {Some(s) : s \in SeqUpTo(ParseDerivative, MaxDerivatives)}}

\* ---------------------------------------------- parseManifest, applied

InitParse ==
    /\ IdleState(OneRequest)
    /\ fsDirs = baseDirs
    /\ bucket = TRUE
    /\ pmanifest \in ParseManifests
    /\ presult = NotParsed
    /\ dirCalls = <<>>
    /\ uids = <<>>
    /\ uurns = <<>>

ParseApply ==
    /\ presult = NotParsed
    /\ presult' = parseManifest(pmanifest)
    /\ UNCHANGED <<handlerVars, fsDirs, bucket, pmanifest, dirCalls, uids, uurns>>

NextParse == ParseApply

SpecParse == InitParse /\ [][NextParse]_vars

\* ----------------------------------------- createResultDirectory, applied


CadFileNames == SeqUpTo({"a", ".", "/"}, MaxNameLen)

InitDir ==
    /\ IdleState(OneRequest)
    /\ fsDirs \in {baseDirs, baseDirs \cup {baseResultDir}}
    /\ bucket = TRUE
    /\ pmanifest = None
    /\ presult = NotParsed
    /\ dirCalls = <<>>
    /\ uids = <<>>
    /\ uurns = <<>>

DirApply ==
    \E cadFileName \in CadFileNames, mkdirOk \in BOOLEAN :
        /\ Len(dirCalls) < MaxDirCalls
        /\ LET r == createResultDirectory(fsDirs, cadFileName, mkdirOk)
           IN /\ fsDirs' = r.fs
              /\ dirCalls' = Append(dirCalls, <<cadFileName, [x \in DOMAIN r \ {"fs"} |-> r[x]]>>)
        /\ UNCHANGED <<handlerVars, bucket, pmanifest, presult, uids, uurns>>

NextDir == DirApply

SpecDir == InitDir /\ [][NextDir]_vars

NextCreate ==
    \/ \E p \in DOMAIN pc : CreateMissingFile(p)
    \/ \E p \in DOMAIN pc : CreateCall(p)
    \/ \E p \in DOMAIN pc : CreateBucketReply(p)
    \/ \E p \in DOMAIN pc : CreateCreateReply(p)
    \/ \E p \in DOMAIN pc : CreateReadReply(p)
    \/ \E p \in DOMAIN pc : CreateUploadReply(p)
    \/ \E p \in DOMAIN pc : CreateTranslateReply(p)

SpecCreate == InitServer /\ [][NextCreate]_vars

\* Two requests in flight at once: each await of one is a point where the
\* other may run.
TwoRequests == {"r1", "r2"}

InitConcurrent ==
    /\ IdleState(TwoRequests)
    /\ fsDirs = baseDirs
    /\ bucket \in BOOLEAN
    /\ pmanifest = None
    /\ presult = NotParsed
    /\ dirCalls = <<>>
    /\ uids = <<>>
    /\ uurns = <<>>

NextConcurrent ==
    \/ \E p \in DOMAIN pc : ListCall(p)
    \/ \E p \in DOMAIN pc : ListBucketReply(p)
    \/ \E p \in DOMAIN pc : ListCreateReply(p)
    \/ \E p \in DOMAIN pc : ListObjectsReply(p)
    \/ \E p \in DOMAIN pc : CreateMissingFile(p)
    \/ \E p \in DOMAIN pc : CreateCall(p)
    \/ \E p \in DOMAIN pc : CreateBucketReply(p)
    \/ \E p \in DOMAIN pc : CreateCreateReply(p)
    \/ \E p \in DOMAIN pc : CreateReadReply(p)
    \/ \E p \in DOMAIN pc : CreateUploadReply(p)
    \/ \E p \in DOMAIN pc : CreateTranslateReply(p)

SpecConcurrent == InitConcurrent /\ [][NextConcurrent]_vars

\* ------------------------------------------------------ urnify, applied

\* Bytes of object ids: NUL, 'a', '=' itself, and the highest byte.
IdBytes == {0, 61, 97, 255}

ObjectIdBytes == SeqUpTo(IdBytes, MaxIdLen)

InitUrnify ==
    /\ IdleState(OneRequest)
    /\ fsDirs = baseDirs
    /\ bucket = TRUE
    /\ pmanifest = None
    /\ presult = NotParsed
    /\ dirCalls = <<>>
    /\ uids \in ObjectIdBytes \X ObjectIdBytes
    /\ uurns = <<>>

UrnifyApply ==
    /\ uurns = <<>>
    /\ uurns' = <<urnify(uids[1]), urnify(uids[2])>>
    /\ UNCHANGED <<handlerVars, fsDirs, bucket, pmanifest, presult, dirCalls, uids>>

NextUrnify == UrnifyApply

SpecUrnify == InitUrnify /\ [][NextUrnify]_vars

\* ------------------------------------------------------------------ claims

StatusDone(p) == pc[p] = "done" /\ req[p].op = "status"

\* Every message of the manifest, flattened: for each derivative in order
\* its own messages, then those of each of its children in order.
RECURSIVE ChildMessages(_)
ChildMessages(children) ==
    IF children = <<>> THEN <<>>
    ELSE OrEmpty(Head(children).messages) \o ChildMessages(Tail(children))

RECURSIVE AllMessages(_)
AllMessages(derivatives) ==
    IF derivatives = <<>> THEN <<>>
    ELSE OrEmpty(Head(derivatives).messages)
         \o (IF IsSome(Head(derivatives).children)
             THEN ChildMessages(Get(Head(derivatives).children)) ELSE <<>>)
         \o AllMessages(Tail(derivatives))

\* C1: the status query returns one flat message list holding, for every
\* derivative in manifest order, the derivative's own messages followed by
\* the messages of each of its children in child order.
C1_StatusMessagesFlattened ==
    \A p \in DOMAIN pc :
        (/\ StatusDone(p)
         /\ replies[p][1].kind = "ok"
         /\ IsSome(Get(replies[p][1].body).derivatives))
        => /\ out[p].kind = "json"
           /\ out[p].body.messages =
                  AllMessages(Get(Get(replies[p][1].body).derivatives))

\* C2: a manifest fetch answered 404 makes the status query respond
\* {status: "n/a"} without taking the error path; any other failure of the
\* fetch is passed on as an error and gives no n/a response.
C2_NotFoundIsNotAnError ==
    \A p \in DOMAIN pc :
        StatusDone(p) =>
            /\ replies[p][1] = HttpError(404) => out[p] = Json([status |-> "n/a"])
            /\ replies[p][1] \in Failures => out[p].kind = "next"

C2_Witness ==
    \E p \in DOMAIN pc :
        /\ StatusDone(p)
        /\ replies[p][1] = HttpError(404)
        /\ out[p] = Json([status |-> "n/a"])

PropsDone(p) == pc[p] = "done" /\ req[p].op = "props"

\* C3: a properties request completes with exactly one outcome, the summary
\* {cadFileName, propertyDbUrn, modelDataUrn} as its response or an error
\* passed on; when the manifest parses, the result directory is allocated
\* and both derivative resolutions succeed, the outcome is the summary.
C3_PropertiesRespondOrFail ==
    \A p \in DOMAIN pc :
        PropsDone(p) =>
            /\ out[p].kind \in {"json", "next"}
            /\ Len(replies[p]) = 3 /\ getDerivativeDownloadUrn(replies[p][3]).kind = "return"
               => out[p] = Json([cadFileName |-> loc[p].parsedManifest.cadFileName,
                                 propertyDbUrn |-> loc[p].parsedManifest.sqLiteUrn,
                                 modelDataUrn |-> loc[p].parsedManifest.propertiesUrn])

pderivatives == Get(Get(pmanifest).derivatives)

\* The completeness filter as the specification words it: the format marker
\* is a substring of outputType, progress is "complete", status is
\* "success", and children is present and non-empty.
CompletenessFilter(derivative) ==
    /\ IsSome(derivative.outputType)
    /\ Includes(Get(derivative.outputType), svf)
    /\ derivative.progress = "complete"
    /\ derivative.status = "success"
    /\ IsSome(derivative.children)
    /\ Get(derivative.children) # <<>>

\* C4: parse returns the error "no manifest received" for a null manifest and
\* the error "manifest has no derivatives" when derivatives is absent or is
\* an empty sequence; no summary is returned in either case.
C4_ParseRejectsMissingOrEmpty ==
    presult # NotParsed =>
        /\ ~IsSome(pmanifest) => presult = Error("no manifest received")
        /\ (/\ IsSome(pmanifest)
            /\ \/ ~IsSome(Get(pmanifest).derivatives)
               \/ pderivatives = <<>>)
           => presult = Error("manifest has no derivatives")

\* C5: a derivative contributes to the summary if and only if it satisfies
\* the completeness filter: the summary is the one obtained from the
\* derivatives that satisfy it alone, and when none does the three fields
\* are empty strings and no error is returned.
C5_FilterDecidesContribution ==
    (presult # NotParsed /\ IsSome(pmanifest) /\ IsSome(Get(pmanifest).derivatives)) =>
        /\ presult = parseManifest(Some([Get(pmanifest) EXCEPT !.derivatives =
                         Some(SelectSeq(pderivatives, CompletenessFilter))]))
        /\ (\A i \in 1..Len(pderivatives) : ~CompletenessFilter(pderivatives[i]))
           => presult = Summary(<<>>, "", "")

\* The children of the derivatives that satisfy the completeness filter, as
\* positions <<i, j>>.
PassingChildren ==
    {ij \in (1..Len(pderivatives)) \X (1..MaxChildren + 1) :
        /\ CompletenessFilter(pderivatives[ij[1]])
        /\ ij[2] <= Len(Get(pderivatives[ij[1]].children))}

ChildAt(ij) == Get(pderivatives[ij[1]].children)[ij[2]]

\* C6: a URN of the summary is the urn of a child with the role of that URN
\* and type "resource", inside a derivative that passes the filter; a child
\* with the role but another type sets no URN.
C6_UrnOnlyFromResourceChild ==
    presult.kind = "summary" =>
        /\ presult.sqLiteUrn # "" =>
            \E ij \in PassingChildren :
                /\ ChildAt(ij).role = PropertyDatabaseRole
                /\ ChildAt(ij).type = "resource"
                /\ ChildAt(ij).urn = presult.sqLiteUrn
        /\ presult.propertiesUrn # "" =>
            \E ij \in PassingChildren :
                /\ ChildAt(ij).role = ModelDataRole
                /\ ChildAt(ij).type = "resource"
                /\ ChildAt(ij).urn = presult.propertiesUrn

Before(a, b) == a[1] < b[1] \/ (a[1] = b[1] /\ a[2] < b[2])

\* The urn of the last child with role, in traversal order, or "".
LastUrn(role) ==
    LET S == {ij \in PassingChildren : ChildAt(ij).role = role}
    IN IF S = {} THEN ""
       ELSE ChildAt(CHOOSE m \in S : \A o \in S : o = m \/ Before(o, m)).urn

\* The name of the last derivative that satisfies the filter, or "".
LastPassingName ==
    LET S == {i \in 1..Len(pderivatives) : CompletenessFilter(pderivatives[i])}
    IN IF S = {} THEN <<>>
       ELSE pderivatives[CHOOSE m \in S : \A o \in S : o <= m].name

\* C7: last writer wins: cadFileName is the name of the last derivative that
\* passes the completeness filter, each URN is the urn of the last child with
\* its role met while traversing the passing derivatives in order.
C7_LastWriterWins ==
    presult.kind = "summary" =>
        /\ presult.cadFileName = LastPassingName
        /\ presult.sqLiteUrn = LastUrn(PropertyDatabaseRole)
        /\ presult.propertiesUrn = LastUrn(ModelDataRole)

Returned(call) == call[2].kind = "return"

\* path is the directory named name directly inside the base results
\* directory; for a basename that names no entry ('' and '.') it is the base
\* results directory itself. Either way it is no location outside the base.
InsideBase(path, name) ==
    /\ Len(path) >= Len(baseResultDir)
    /\ SubSeq(path, 1, Len(baseResultDir)) = baseResultDir
    /\ IF name \in {<<>>, dot} THEN path = baseResultDir
       ELSE Len(path) = Len(baseResultDir) + 1 /\ path[Len(path)] = name

\* C9: an empty cadFileName gives an error; every other name, path
\* components included, gives a directory inside the base results directory
\* named by the basename of cadFileName; a second call with the same name
\* succeeds and returns the same path.
C9_ResultDirInsideBase ==
    \A i \in 1..Len(dirCalls) :
        LET name == dirCalls[i][1]
            result == dirCalls[i][2]
        IN /\ name = <<>> => Returned(dirCalls[i]) /\ IsError(result.value)
           /\ (name # <<>> /\ Returned(dirCalls[i])) =>
                 /\ result.value.kind = "path"
                 /\ InsideBase(result.value.path, basename(name))
                 /\ result.value.path \in fsDirs
           /\ \A j \in 1..(i - 1) :
                 (dirCalls[j][1] = name /\ Returned(dirCalls[j])) =>
                     result = dirCalls[j][2]

\* The job sent by request p.
SentJob(p) == calls[p][1].job

\* C8: a call of submit builds exactly one translation request, with output
\* format "svf2" and views ["2d", "3d"] and the given job identifier as
\* input; the compressed-archive flag and the root filename are both set if
\* and only if rootFilename is non-empty, and neither is present otherwise.
C8_OneFixedTranslationRequest ==
    \A p \in DOMAIN pc :
        req[p].op = "translateObject" =>
            /\ Len(calls[p]) = 1
            /\ calls[p][1].api = "translate"
            /\ SentJob(p).output = [formats |-> <<[type |-> <<"s", "v", "f", "2">>,
                                                  views |-> <<"2d", "3d">>]>>]
            /\ SentJob(p).input.urn = req[p].urn
            /\ IF req[p].rootFilename \in {None, Some("")}
               THEN DOMAIN SentJob(p).input = {"urn"}
               ELSE /\ DOMAIN SentJob(p).input = {"urn", "compressedUrn", "rootFilename"}
                    /\ SentJob(p).input.compressedUrn = TRUE
                    /\ SentJob(p).input.rootFilename = Get(req[p].rootFilename)

C8_Witness ==
    \E p \in DOMAIN pc :
           /\ pc[p] = "done"
           /\ req[p].op = "translateObject"
           /\ req[p].rootFilename = Some("main.iam")
           /\ SentJob(p).input.compressedUrn = TRUE
           /\ out[p].kind = "return"

\* The pages request p has received, in order.
PagesOf(p) == SelectSeq(replies[p], LAMBDA r : r.kind = "ok" /\ "items" \in DOMAIN r.body)

\* The getObjects calls request p has issued, in order.
GetObjectsOf(p) == SelectSeq(calls[p], LAMBDA c : c.api = "getObjects")

RECURSIVE ItemsOf(_)
ItemsOf(pages) ==
    IF pages = <<>> THEN <<>> ELSE Head(pages).body.items \o ItemsOf(Tail(pages))

Listing(p) == req[p].op = "listObjects" /\ pc[p] # "done"

\* What holds of listObjects in every state: each page after the first is
\* asked for with the startAt of the page before it, and the function
\* returns only after a page without a next, with the items of all the
\* pages fetched in page order.
ListFollowsPages(p) ==
    /\ \A k \in 1..Len(GetObjectsOf(p)) :
          /\ k = 1 => GetObjectsOf(p)[k].startAt = None
          /\ k > 1 => /\ k - 1 <= Len(PagesOf(p))
                      /\ IsSome(PagesOf(p)[k - 1].body.next)
                      /\ GetObjectsOf(p)[k].startAt =
                             Some(Get(PagesOf(p)[k - 1].body.next).startAt)
    /\ (pc[p] = "done" /\ out[p].kind = "return") =>
          /\ PagesOf(p) # <<>>
          /\ ~IsSome(PagesOf(p)[Len(PagesOf(p))].body.next)
          /\ \A k \in 1..(Len(PagesOf(p)) - 1) : IsSome(PagesOf(p)[k].body.next)
          /\ out[p].value = ItemsOf(PagesOf(p))

\* C10: listObjects follows the continuation token of every page until a
\* page without one, returns the items of all pages fetched in page order,
\* never returns while the last page carries a token, and terminates once
\* the remote returns a page without a token.
C10_ListFollowsPagination ==
    /\ [](\A p \in OneRequest : req[p].op = "listObjects" => ListFollowsPages(p))
    /\ \A p \in OneRequest : Listing(p) ~> pc[p] = "done"

C10_Witness ==
    \E p \in DOMAIN pc :
        /\ req[p].op = "listObjects"
        /\ pc[p] = "done"
        /\ out[p].kind = "return"
        /\ Len(PagesOf(p)) = 3
        /\ out[p].value = <<"o1", "o2", "o1">>

\* C11: urnify is deterministic and injective: equal object ids give equal
\* urns, distinct object ids give distinct urns although the padding is
\* stripped, and no urn contains the character '='.
C11_UrnifyInjectiveUnpadded ==
    uurns # <<>> =>
        /\ (uids[1] = uids[2]) <=> (uurns[1] = uurns[2])
        /\ \A k \in 1..2 : \A i \in 1..Len(uurns[k]) : uurns[k][i] # "="

\* Two ids whose padded encodings differ in the padding only at their end.
C11_Witness ==
    /\ uurns # <<>>
    /\ uids = <<(<<0>>), (<<0, 0>>)>>
    /\ uurns = <<(<<"A", "A">>), (<<"A", "A", "A">>)>>

Creating == {p \in DOMAIN pc : req[p].op = "createModel"}

\* The call numbered i of request p was answered by a failure that the
\* code does not handle: anything but the 404 of getBucketDetails, and an
\* upload result with its error flag set.
CreateFailedAt(p, i) ==
    /\ i <= Len(replies[p])
    /\ IF replies[p][i].kind = "ok"
       THEN calls[p][i].api = "uploadResources" /\ replies[p][i].body[1].error
       ELSE ~(calls[p][i].api = "getBucketDetails" /\ replies[p][i] = HttpError(404))

\* The error that failure is, for the caller.
CreateErrorAt(p, i) ==
    IF replies[p][i].kind = "ok" THEN replies[p][i].body[1].completed
    ELSE replies[p][i]

\* C12: in createModel the translation is submitted only after the upload
\* has succeeded, for the urn encoded from the uploaded object's id; the
\* success response is sent only after the submission was accepted and
\* carries that urn; without the file field nothing is called; and a failed
\* upload or submission ends in next(err) with that error, never in a
\* success response.
C12_CreateModelOrdering ==
    \A p \in Creating :
        LET c == calls[p]
            r == replies[p]
        IN /\ \A i \in 1..Len(c) :
                  c[i].api = "translate" =>
                      /\ i > 1
                      /\ c[i - 1].api = "uploadResources"
                      /\ r[i - 1].kind = "ok"
                      /\ ~r[i - 1].body[1].error
                      /\ c[i].job.input.urn = urnify(r[i - 1].body[1].completed.objectId)
                      /\ \A j \in 1..(i - 1) : ~CreateFailedAt(p, j)
           /\ out[p].kind = "json" =>
                  /\ pc[p] = "done"
                  /\ c[Len(c)].api = "translate"
                  /\ Len(r) = Len(c)
                  /\ r[Len(c)].kind = "ok"
                  /\ out[p].body.urn = c[Len(c)].job.input.urn
                  /\ out[p].body.name = r[Len(c) - 1].body[1].completed.objectKey
           /\ ~IsSome(req[p].file) => c = <<>> /\ out[p] = MissingFileResponse
           /\ \A i \in 1..Len(c) :
                  CreateFailedAt(p, i) =>
                      /\ pc[p] = "done"
                      /\ i = Len(c)
                      /\ out[p].kind = "next"
                      /\ replies[p][i].kind = "transport"
                         \/ out[p].err = CreateErrorAt(p, i)

\* A model is created in a bucket this request had to create first.
C12_Witness ==
    \E p \in Creating :
        /\ pc[p] = "done"
        /\ out[p].kind = "json"
        /\ Len(calls[p]) = 5
        /\ calls[p][2].api = "createBucket"
        /\ out[p].body.urn = <<"Y", "T", "0">>

\* The positions of the resolver's calls among the calls of request p.
ResolverCalls(p) ==
    {i \in 1..Len(calls[p]) : calls[p][i].api = "getDerivativeDownloadUrl"}

\* C13: during a properties request the derivative resolver is called at
\* most twice, the first time for the property database urn and the second
\* for the model data urn, only after the manifest has parsed without error
\* and the result directory is allocated, and never with an empty
\* derivative urn.
C13_ResolverCalledOnRealUrns ==
    \A p \in DOMAIN pc :
        req[p].op = "props" =>
            /\ Cardinality(ResolverCalls(p)) <= 2
            /\ \A i \in ResolverCalls(p) :
                   /\ i \in {2, 3}
                   /\ "parsedManifest" \in DOMAIN loc[p]
                   /\ ~IsError(loc[p].parsedManifest)
                   /\ loc[p].resultDir \in fsDirs
                   /\ calls[p][i].derivativeUrn =
                          (IF i = 2 THEN loc[p].parsedManifest.sqLiteUrn
                           ELSE loc[p].parsedManifest.propertiesUrn)
                   /\ calls[p][i].derivativeUrn # ""

\* The requests whose ensureBucketExists awaits its createBucket.
CreatingBucket == {p \in DOMAIN pc : pc[p] \in {"list_createBucket", "create_createBucket"}}

\* Request p has ended on a createBucket refused because the bucket exists.
FailedOnExistingBucket(p) ==
    /\ pc[p] = "done"
    /\ calls[p] # <<>>
    /\ calls[p][Len(calls[p])].api = "createBucket"
    /\ replies[p][Len(calls[p])] = HttpError(409)

\* C14: under any interleaving of concurrent list and create requests, a
\* createBucket call is in flight only while the bucket does not exist, at
\* most one is in flight at a time, and no request fails because the bucket
\* was created by another request between its 404 and its createBucket.
C14_BucketCreatedOnce ==
    /\ Cardinality(CreatingBucket) <= 1
    /\ CreatingBucket # {} => ~bucket
    /\ \A p \in DOMAIN pc : ~FailedOnExistingBucket(p)

====
